---- MODULE Spec2Model ----
(***************************************************************************)
(* The index-permission panel of the role-edit page                        *)
(* (public/apps/configuration/panels/role-edit/index-permission-panel.tsx):*)
(* the wire <-> form-state conversion functions and the panel's click and  *)
(* change handlers over the parent-owned array of permission entries.      *)
(*                                                                         *)
(* Strings that the code inspects (field names, index patterns, action     *)
(* names) are sequences of one-character strings, so that startsWith,      *)
(* replace(/^~/, '') and '~' + field are computed, not assumed.            *)
(* A combo box option is the record [label |-> string].                    *)
(***************************************************************************)
EXTENDS Integers, Sequences, FiniteSets, TLC

VARIABLES
    roleIndexPermission,  \* the parent's state array (props.state / setState)
    lastOp,               \* the last handler that ran on the panel
    trail                 \* conversion pipeline: values produced by build/unbuild

vars == <<roleIndexPermission, lastOp, trail>>

-----------------------------------------------------------------------------
(* Bounds *)

\* largest form the panel is driven to: its entries plus the combo box
\* options they hold
MaxSize == 3
\* longest list of wire permissions / entries handed to a conversion
MaxPerms == 2
\* most fls tokens (field options) in one conversion input
MaxFields == 2
\* longest chain of conversions applied to one input
MaxTrail == 5

-----------------------------------------------------------------------------
(* Strings and sequences *)

SeqsUpTo(S, n) == UNION {[1..k -> S] : k \in 0..n}

\* String.prototype.startsWith('~')
startsWithTilde(s) == Len(s) >= 1 /\ Head(s) = "~"

\* variant: s.replace(/^~+/, ''), dropping every leading '~'
RECURSIVE replaceEveryLeadingTilde(_)
replaceEveryLeadingTilde(s) ==
    IF startsWithTilde(s) THEN replaceEveryLeadingTilde(Tail(s)) ELSE s

\* String.prototype.replace(/^~/, ''): drops one leading '~', if there is one
replaceLeadingTilde(s) == IF startsWithTilde(s) THEN Tail(s) ELSE s

\* Array.prototype.some(s => s.startsWith('~')): scans from the front
RECURSIVE someStartsWithTilde(_)
someStartsWithTilde(a) ==
    IF a = <<>> THEN FALSE
    ELSE IF startsWithTilde(Head(a)) THEN TRUE
    ELSE someStartsWithTilde(Tail(a))

-----------------------------------------------------------------------------
(* utils/combo-box-utils and utils/array-state-utils: imported by the panel, *)
(* their bodies taken from the specification's description of them          *)

stringToComboBoxOption(s) == [label |-> s]

comboBoxOptionToString(o) == o.label

\* strings.map(stringToComboBoxOption)
mapStringToComboBoxOption(strings) ==
    [i \in 1..Len(strings) |-> stringToComboBoxOption(strings[i])]

\* options.map(comboBoxOptionToString)
mapComboBoxOptionToString(options) ==
    [i \in 1..Len(options) |-> comboBoxOptionToString(options[i])]

\* appendElementToArray(setState, [], element): setState(prev => [...prev, element])
appendElementToArray(prev, element) == Append(prev, element)

\* removeElementFromArray(setState, [], index): a copy of the array with the
\* one element at index (counted from 0) spliced out
removeElementFromArray(prev, index) ==
    SubSeq(prev, 1, index) \o SubSeq(prev, index + 2, Len(prev))

\* updateElementInArrayHandler(setState, [index, attribute])(newValue)
updateElementInArrayHandler(prev, index, attribute, newValue) ==
    [prev EXCEPT ![index + 1][attribute] = newValue]

\* appendOptionToComboBoxHandler(setState, [index, attribute])(newValue)
appendOptionToComboBoxHandler(prev, index, attribute, newValue) ==
    [prev EXCEPT ![index + 1][attribute] =
        Append(@, stringToComboBoxOption(newValue))]

-----------------------------------------------------------------------------
(* Conversion functions *)

\* variant: a default entry with method 'include'
getEmptyIndexPermissionInclude ==
    [indexPatterns |-> <<>>, allowedActions |-> <<>>, docLevelSecurity |-> "",
     fieldLevelSecurityMethod |-> "include",
     fieldLevelSecurityFields |-> <<>>, maskedFields |-> <<>>]

getEmptyIndexPermission ==
    [indexPatterns |-> <<>>, allowedActions |-> <<>>, docLevelSecurity |-> "",
     fieldLevelSecurityMethod |-> "exclude",
     fieldLevelSecurityFields |-> <<>>, maskedFields |-> <<>>]

\* variant: every() in place of some()
getFieldLevelSecurityMethodEvery(fieldLevelSecurityRawFields) ==
    IF \A i \in 1..Len(fieldLevelSecurityRawFields) :
           startsWithTilde(fieldLevelSecurityRawFields[i])
    THEN "exclude" ELSE "include"

getFieldLevelSecurityMethod(fieldLevelSecurityRawFields) ==
    IF someStartsWithTilde(fieldLevelSecurityRawFields)
    THEN "exclude" ELSE "include"

\* variant: the raw tokens as options, '~' kept
getFieldLevelSecurityFieldsNoStrip(fieldLevelSecurityRawFields) ==
    mapStringToComboBoxOption(fieldLevelSecurityRawFields)

getFieldLevelSecurityFields(fieldLevelSecurityRawFields) ==
    mapStringToComboBoxOption(
        [i \in 1..Len(fieldLevelSecurityRawFields) |->
            replaceLeadingTilde(fieldLevelSecurityRawFields[i])])

prependTilde(field) == <<"~">> \o field

\* variant: the field strings as they are under both methods
packFieldLevelSecurityNoMarker(method, fieldOptions) ==
    mapComboBoxOptionToString(fieldOptions)

packFieldLevelSecurity(method, fieldOptions) ==
    LET fields == mapComboBoxOptionToString(fieldOptions)
    IN  IF method = "include" THEN fields
        ELSE [i \in 1..Len(fields) |-> prependTilde(fields[i])]

buildPerm(perm) ==
    [indexPatterns |-> mapStringToComboBoxOption(perm.index_patterns),
     allowedActions |-> <<>>,
     docLevelSecurity |-> perm.dls,
     fieldLevelSecurityMethod |-> getFieldLevelSecurityMethod(perm.fls),
     fieldLevelSecurityFields |-> getFieldLevelSecurityFields(perm.fls),
     maskedFields |-> <<>>]

\* variant: allowedActions and maskedFields filled from the wire shape
buildIndexPermissionStateCopyAll(indexPerm) ==
    [k \in 1..Len(indexPerm) |->
        [buildPerm(indexPerm[k]) EXCEPT
            !.allowedActions =
                mapStringToComboBoxOption(indexPerm[k].allowed_actions),
            !.maskedFields =
                mapStringToComboBoxOption(indexPerm[k].masked_fields)]]

buildIndexPermissionState(indexPerm) ==
    [k \in 1..Len(indexPerm) |-> buildPerm(indexPerm[k])]

unbuildPerm(perm) ==
    [index_patterns |-> mapComboBoxOptionToString(perm.indexPatterns),
     dls |-> perm.docLevelSecurity,
     fls |-> packFieldLevelSecurity(perm.fieldLevelSecurityMethod,
                                    perm.fieldLevelSecurityFields),
     masked_fields |-> mapComboBoxOptionToString(perm.maskedFields),
     allowed_actions |-> mapComboBoxOptionToString(perm.allowedActions)]

unbuildIndexPermissionState(indexPerm) ==
    [k \in 1..Len(indexPerm) |-> unbuildPerm(indexPerm[k])]

-----------------------------------------------------------------------------
(* Inputs the operator can give the panel *)

\* strings typed into the index pattern box
PatternStrings == {<<"l", "*">>}

\* strings typed into the field level security box
FieldStrings == {<<"a">>, <<"~", "b">>}

\* strings typed into the anonymization box
MaskedStrings == {<<"m">>}

\* texts typed into the document level security area
DlsTexts == {"", "{q}"}

\* the permission options the page offers (props.optionUniverse)
permisionOptionsSet == <<stringToComboBoxOption(<<"r", "e", "a", "d">>)>>

Options(strings) == {stringToComboBoxOption(s) : s \in strings}

\* what a combo box without suggestions hands to onChange: the selection
\* with one of its options taken out, or cleared
Removals(selected) ==
    {<<>>} \cup {SubSeq(selected, 1, j - 1) \o SubSeq(selected, j + 1, Len(selected)) :
                    j \in 1..Len(selected)}

\* what the permission combo box hands to onChange: as above, or the selection
\* with one more option of permisionOptionsSet
PermissionSelections(selected) ==
    Removals(selected) \cup
    {Append(selected, permisionOptionsSet[j]) :
        j \in {x \in 1..Len(permisionOptionsSet) :
                  \A y \in 1..Len(selected) : selected[y] # permisionOptionsSet[x]}}

ComboAttributes == {"indexPatterns", "allowedActions",
                    "fieldLevelSecurityFields", "maskedFields"}

RECURSIVE SumLens(_, _)
SumLens(e, attrs) ==
    IF attrs = {} THEN 0
    ELSE LET a == CHOOSE x \in attrs : TRUE
         IN  Len(e[a]) + SumLens(e, attrs \ {a})

\* the entries of the array plus the options they hold
RECURSIVE Size(_)
Size(arr) ==
    IF arr = <<>> THEN 0
    ELSE 1 + SumLens(Head(arr), ComboAttributes) + Size(Tail(arr))

-----------------------------------------------------------------------------
(* generateIndexPermissionPanels: the handlers of the section at arrayIndex *)

\* variant: the handler bound to the first section whatever arrayIndex is
onValueChangeHandlerFirst(prev, arrayIndex, attributeToUpdate, newValue) ==
    updateElementInArrayHandler(prev, 0, attributeToUpdate, newValue)

onValueChangeHandler(prev, arrayIndex, attributeToUpdate, newValue) ==
    updateElementInArrayHandler(prev, arrayIndex, attributeToUpdate, newValue)

onCreateOptionHandler(prev, arrayIndex, attributeToUpdate, newValue) ==
    appendOptionToComboBoxHandler(prev, arrayIndex, attributeToUpdate, newValue)

\* variant: the button removing the section after its own
removeOnClickNext(prev, arrayIndex) ==
    removeElementFromArray(prev, IF arrayIndex + 1 < Len(prev)
                                 THEN arrayIndex + 1 ELSE 0)

\* the Remove button of the section
removeOnClick(prev, arrayIndex) == removeElementFromArray(prev, arrayIndex)

\* the "Add another index permission" button
addOnClick(prev) == appendElementToArray(prev, getEmptyIndexPermission)

\* the sections rendered: one per entry, arrayIndex counted from 0
Sections == 0..(Len(roleIndexPermission) - 1)

\* setRoleIndexPermission(prev => next), on the handler named op
Set(next, op) ==
    /\ lastOp' = op
    /\ roleIndexPermission' = next
    /\ Size(roleIndexPermission') <= MaxSize
    /\ UNCHANGED trail

Remove(arrayIndex) ==
    Set(removeOnClick(roleIndexPermission, arrayIndex), "remove")

IndexPatternRowChange(arrayIndex, s) ==
    Set(onValueChangeHandler(roleIndexPermission, arrayIndex,
                             "indexPatterns", s), "onChange")

IndexPatternRowCreate(arrayIndex, s) ==
    Set(onCreateOptionHandler(roleIndexPermission, arrayIndex,
                              "indexPatterns", s), "onCreate")

IndexPermissionRowChange(arrayIndex, s) ==
    Set(onValueChangeHandler(roleIndexPermission, arrayIndex,
                             "allowedActions", s), "onChange")

DocLevelSecurityRowChange(arrayIndex, value) ==
    Set(onValueChangeHandler(roleIndexPermission, arrayIndex,
                             "docLevelSecurity", value), "onChange")

FieldLevelSecurityRowMethodChange(arrayIndex, s) ==
    Set(onValueChangeHandler(roleIndexPermission, arrayIndex,
                             "fieldLevelSecurityMethod", s), "onMethodChange")

FieldLevelSecurityRowFieldChange(arrayIndex, s) ==
    Set(onValueChangeHandler(roleIndexPermission, arrayIndex,
                             "fieldLevelSecurityFields", s), "onChange")

FieldLevelSecurityRowFieldCreate(arrayIndex, s) ==
    Set(onCreateOptionHandler(roleIndexPermission, arrayIndex,
                              "fieldLevelSecurityFields", s), "onCreate")

AnonymizationRowChange(arrayIndex, s) ==
    Set(onValueChangeHandler(roleIndexPermission, arrayIndex,
                             "maskedFields", s), "onChange")

AnonymizationRowCreate(arrayIndex, s) ==
    Set(onCreateOptionHandler(roleIndexPermission, arrayIndex,
                              "maskedFields", s), "onCreate")

(* IndexPermissionPanel: the "Add another index permission" button *)
Add ==
    Set(addOnClick(roleIndexPermission), "add")

\* the values of the method selector
Methods == {"include", "exclude"}

\* the entry the section at arrayIndex shows
Entry(arrayIndex) == roleIndexPermission[arrayIndex + 1]

Init ==
    /\ roleIndexPermission = <<>>
    /\ lastOp = "init"
    /\ trail = <<>>

Next ==
    \/ Add
    \/ \E arrayIndex \in Sections : Remove(arrayIndex)
    \/ \E arrayIndex \in Sections : \E s \in Removals(Entry(arrayIndex).indexPatterns) :
           IndexPatternRowChange(arrayIndex, s)
    \/ \E arrayIndex \in Sections : \E s \in PatternStrings :
           IndexPatternRowCreate(arrayIndex, s)
    \/ \E arrayIndex \in Sections : \E s \in PermissionSelections(Entry(arrayIndex).allowedActions) :
           IndexPermissionRowChange(arrayIndex, s)
    \/ \E arrayIndex \in Sections : \E value \in DlsTexts :
           DocLevelSecurityRowChange(arrayIndex, value)
    \/ \E arrayIndex \in Sections : \E s \in Methods :
           FieldLevelSecurityRowMethodChange(arrayIndex, s)
    \/ \E arrayIndex \in Sections : \E s \in Removals(Entry(arrayIndex).fieldLevelSecurityFields) :
           FieldLevelSecurityRowFieldChange(arrayIndex, s)
    \/ \E arrayIndex \in Sections : \E s \in FieldStrings :
           FieldLevelSecurityRowFieldCreate(arrayIndex, s)
    \/ \E arrayIndex \in Sections : \E s \in Removals(Entry(arrayIndex).maskedFields) :
           AnonymizationRowChange(arrayIndex, s)
    \/ \E arrayIndex \in Sections : \E s \in MaskedStrings :
           AnonymizationRowCreate(arrayIndex, s)

Spec == Init /\ [][Next]_vars

-----------------------------------------------------------------------------
(* The conversions applied to bounded inputs.  trail starts with one input,  *)
(* a list of wire permissions or a list of entries, and each step appends    *)
(* the conversion of its last value.                                         *)

\* fls tokens a role document may hold, or field names an entry may hold
FlsStrings == {<<"a">>, <<"~", "a">>, <<"~", "~", "b">>, <<"a", "~">>, <<"~">>}

WireVariant(filled, fls) ==
    IF filled
    THEN [index_patterns |-> <<<<"l", "*">>>>, dls |-> "{q}", fls |-> fls,
          masked_fields |-> <<<<"m">>>>,
          allowed_actions |-> <<<<"r", "e", "a", "d">>>>]
    ELSE [index_patterns |-> <<>>, dls |-> "", fls |-> fls,
          masked_fields |-> <<>>, allowed_actions |-> <<>>]

EntryVariant(filled, method, fields) ==
    IF filled
    THEN [indexPatterns |-> <<stringToComboBoxOption(<<"l", "*">>)>>,
          allowedActions |-> permisionOptionsSet,
          docLevelSecurity |-> "{q}",
          fieldLevelSecurityMethod |-> method,
          fieldLevelSecurityFields |-> mapStringToComboBoxOption(fields),
          maskedFields |-> <<stringToComboBoxOption(<<"m">>)>>]
    ELSE [getEmptyIndexPermission EXCEPT
              !.fieldLevelSecurityMethod = method,
              !.fieldLevelSecurityFields = mapStringToComboBoxOption(fields)]

\* the ways to cut a list of f tokens into n consecutive pieces
Cuts(n, f) ==
    {c \in [0..n -> 0..f] :
        /\ c[0] = 0
        /\ c[n] = f
        /\ \A k \in 1..n : c[k - 1] <= c[k]}

Piece(tokens, c, k) == SubSeq(tokens, c[k - 1] + 1, c[k])

InitWire ==
    \E n \in 0..MaxPerms : \E tokens \in SeqsUpTo(FlsStrings, MaxFields) :
      \E c \in Cuts(n, Len(tokens)) : \E filled \in [1..n -> BOOLEAN] :
        trail = <<[kind |-> "wire",
                   value |-> [k \in 1..n |->
                       WireVariant(filled[k], Piece(tokens, c, k))]]>>

InitState ==
    \E n \in 0..MaxPerms : \E tokens \in SeqsUpTo(FlsStrings, MaxFields) :
      \E c \in Cuts(n, Len(tokens)) : \E filled \in BOOLEAN :
        \E method \in [1..n -> Methods] :
          trail = <<[kind |-> "state",
                     value |-> [k \in 1..n |->
                         EntryVariant(filled, method[k],
                                      Piece(tokens, c, k))]]>>

ConvInit ==
    /\ roleIndexPermission = <<>>
    /\ lastOp = "init"
    /\ (InitWire \/ InitState)

Last == trail[Len(trail)]

Build ==
    /\ Len(trail) < MaxTrail
    /\ Last.kind = "wire"
    /\ trail' = Append(trail, [kind |-> "state",
                               value |-> buildIndexPermissionState(Last.value)])
    /\ UNCHANGED <<roleIndexPermission, lastOp>>

Unbuild ==
    /\ Len(trail) < MaxTrail
    /\ Last.kind = "state"
    /\ trail' = Append(trail, [kind |-> "wire",
                               value |-> unbuildIndexPermissionState(Last.value)])
    /\ UNCHANGED <<roleIndexPermission, lastOp>>

ConvNext == Build \/ Unbuild

ConvSpec == ConvInit /\ [][ConvNext]_vars

-----------------------------------------------------------------------------
(* Vocabulary of the properties *)

HasMarker(token) == SubSeq(token, 1, 1) = <<"~">>

AllPrefixed(fls) == \A j \in 1..Len(fls) : HasMarker(fls[j])

NonePrefixed(fls) == \A j \in 1..Len(fls) : ~HasMarker(fls[j])

\* positions of trail holding a value of the kind that has n successors
At(kind, n) ==
    {i \in 1..Len(trail) : trail[i].kind = kind /\ i + n <= Len(trail)}

Attributes == {"indexPatterns", "allowedActions", "docLevelSecurity",
               "fieldLevelSecurityMethod", "fieldLevelSecurityFields",
               "maskedFields"}

\* the step sets attribute of the entry at arrayIndex to value and nothing else
ReplacesOnly(arrayIndex, attribute, value) ==
    /\ Len(roleIndexPermission') = Len(roleIndexPermission)
    /\ roleIndexPermission'[arrayIndex + 1][attribute] = value
    /\ \A k \in 1..Len(roleIndexPermission) : \A a \in Attributes :
           (k # arrayIndex + 1 \/ a # attribute)
               => roleIndexPermission'[k][a] = roleIndexPermission[k][a]

EditedEntry(e) ==
    \/ e.indexPatterns # <<>>
    \/ e.allowedActions # <<>>
    \/ e.docLevelSecurity # ""
    \/ e.fieldLevelSecurityFields # <<>>
    \/ e.maskedFields # <<>>

-----------------------------------------------------------------------------
(* Properties of the conversions (ConvSpec) *)

\* C1: a single wire permission whose fls is empty or has '~' in front of
\* every token comes back from build then unbuild as one permission with the
\* same fls: same tokens, same order, same length.
C1_RoundTripUniformFls ==
    \A i \in At("wire", 2) :
        (Len(trail[i].value) = 1 /\ AllPrefixed(trail[i].value[1].fls))
            => /\ Len(trail[i + 2].value) = 1
               /\ trail[i + 2].value[1].fls = trail[i].value[1].fls

C1_Witness ==
    /\ Len(trail) >= 3
    /\ trail[1].kind = "wire"
    /\ Len(trail[1].value) = 1
    /\ trail[1].value[1].fls = <<<<"~", "a">>, <<"~", "~", "b">>>>
    /\ trail[3].value[1].fls = <<<<"~", "a">>, <<"~", "~", "b">>>>

\* C3: an entry converted to the wire shape and back holds the same field
\* tokens, whatever the method and whatever the tokens.
C3_LiteralFieldRoundTrip ==
    \A i \in At("state", 2) :
        Len(trail[i].value) = 1
            => /\ Len(trail[i + 2].value) = 1
               /\ trail[i + 2].value[1].fieldLevelSecurityFields
                      = trail[i].value[1].fieldLevelSecurityFields

\* C4: the method built from a raw fls list is "exclude" exactly when at
\* least one of its tokens starts with '~', and "include" otherwise (so for
\* the empty list too).
C4_MethodFromAnyMarker ==
    \A i \in At("wire", 1) : \A k \in 1..Len(trail[i].value) :
        LET raw == trail[i].value[k].fls
            method == trail[i + 1].value[k].fieldLevelSecurityMethod
        IN  /\ method \in {"include", "exclude"}
            /\ method = "exclude" <=> \E j \in 1..Len(raw) : HasMarker(raw[j])

C4_Witness ==
    /\ Len(trail) >= 2
    /\ trail[1].kind = "wire"
    /\ Len(trail[1].value) = 2
    /\ trail[1].value[1].fls = <<<<"a">>, <<"~", "a">>>>
    /\ trail[2].value[1].fieldLevelSecurityMethod = "exclude"
    /\ trail[1].value[2].fls = <<>>
    /\ trail[2].value[2].fieldLevelSecurityMethod = "include"

\* C5: the fls packed from an entry has one token per field option, in the
\* same order: the option's string itself under "include", the string with
\* exactly one '~' put in front under "exclude"; no options pack to no tokens.
C5_PackKeepsLengthAndOrder ==
    \A i \in At("state", 1) : \A k \in 1..Len(trail[i].value) :
        LET e == trail[i].value[k]
            fls == trail[i + 1].value[k].fls
        IN  /\ Len(fls) = Len(e.fieldLevelSecurityFields)
            /\ \A j \in 1..Len(fls) :
                   fls[j] = IF e.fieldLevelSecurityMethod = "include"
                            THEN e.fieldLevelSecurityFields[j].label
                            ELSE <<"~">> \o e.fieldLevelSecurityFields[j].label

C5_Witness ==
    /\ Len(trail) >= 2
    /\ trail[1].kind = "state"
    /\ Len(trail[1].value) = 2
    /\ trail[1].value[1].fieldLevelSecurityMethod = "exclude"
    /\ trail[2].value[1].fls = <<<<"~", "a">>, <<"~", "~", "a">>>>
    /\ trail[1].value[2].fieldLevelSecurityMethod = "include"
    /\ trail[2].value[2].fls = <<>>

\* C8: build returns one entry per wire permission, in the same order, each
\* with no allowedActions and no maskedFields whatever the permission holds;
\* so the permissions unbuilt from them have no allowed_actions and no
\* masked_fields either.
C8_BuildDropsActionsAndMasks ==
    \A i \in At("wire", 1) :
        /\ Len(trail[i + 1].value) = Len(trail[i].value)
        /\ \A k \in 1..Len(trail[i].value) :
               LET perm == trail[i].value[k]
                   e == trail[i + 1].value[k]
               IN  /\ e.allowedActions = <<>>
                   /\ e.maskedFields = <<>>
                   /\ e.docLevelSecurity = perm.dls
                   /\ Len(e.indexPatterns) = Len(perm.index_patterns)
                   /\ \A j \in 1..Len(perm.index_patterns) :
                          e.indexPatterns[j].label = perm.index_patterns[j]
                   /\ Len(e.fieldLevelSecurityFields) = Len(perm.fls)
        /\ i + 2 <= Len(trail)
               => /\ Len(trail[i + 2].value) = Len(trail[i].value)
                  /\ \A k \in 1..Len(trail[i].value) :
                         /\ trail[i + 2].value[k].allowed_actions = <<>>
                         /\ trail[i + 2].value[k].masked_fields = <<>>

C8_Witness ==
    /\ Len(trail) >= 3
    /\ trail[1].kind = "wire"
    /\ Len(trail[1].value) = 2
    /\ trail[1].value[1].allowed_actions # <<>>
    /\ trail[1].value[1].masked_fields # <<>>
    /\ trail[1].value[2].dls # trail[1].value[1].dls
    /\ trail[3].value[1].allowed_actions = <<>>

\* C10: build then unbuild normalises the fls of any wire permission: the
\* result is all '~'-prefixed or all unprefixed, is as long as the input, and
\* comes back unchanged from a second build then unbuild.
C10_RoundTripNormalises ==
    \A i \in At("wire", 2) : \A k \in 1..Len(trail[i].value) :
        LET fls == trail[i + 2].value[k].fls
        IN  /\ AllPrefixed(fls) \/ NonePrefixed(fls)
            /\ Len(fls) = Len(trail[i].value[k].fls)
            /\ i + 4 <= Len(trail) => trail[i + 4].value[k].fls = fls

C10_Witness ==
    /\ Len(trail) = 5
    /\ trail[1].kind = "wire"
    /\ Len(trail[1].value) = 1
    /\ trail[1].value[1].fls = <<<<"~", "~", "b">>, <<"a">>>>
    /\ trail[3].value[1].fls = <<<<"~", "~", "b">>, <<"~", "a">>>>
    /\ trail[5].value[1].fls = trail[3].value[1].fls

-----------------------------------------------------------------------------
(* Properties of the panel (Spec) *)

\* C2: the fls unbuilt from any entry the panel can reach never mixes
\* '~'-prefixed and unprefixed tokens.
C2_UnbuiltFlsNeverMixed ==
    \A k \in 1..Len(roleIndexPermission) :
        LET fls == unbuildIndexPermissionState(roleIndexPermission)[k].fls
        IN  AllPrefixed(fls) \/ NonePrefixed(fls)

\* C6: the add button makes the array one longer, keeps every existing entry
\* in its position, and puts the default entry last: no index patterns,
\* allowed actions, fields or masked fields, an empty document level
\* security text, and the method "exclude".
C6_AddAppendsDefault ==
    [][Add =>
        /\ Len(roleIndexPermission') = Len(roleIndexPermission) + 1
        /\ \A k \in 1..Len(roleIndexPermission) :
               roleIndexPermission'[k] = roleIndexPermission[k]
        /\ roleIndexPermission'[Len(roleIndexPermission) + 1] =
               [indexPatterns |-> <<>>, allowedActions |-> <<>>,
                docLevelSecurity |-> "", fieldLevelSecurityMethod |-> "exclude",
                fieldLevelSecurityFields |-> <<>>, maskedFields |-> <<>>]
    ]_vars

C6_Witness ==
    /\ lastOp = "add"
    /\ Len(roleIndexPermission) = 2
    /\ EditedEntry(roleIndexPermission[1])
    /\ roleIndexPermission[1].fieldLevelSecurityMethod = "include"
    /\ roleIndexPermission[2].fieldLevelSecurityMethod = "exclude"

\* C7: the Remove button of the section at index i makes the array one
\* shorter: the entries before i stay where they are, the entries after i
\* move up by one, unchanged, and only the entry at i is gone.
C7_RemoveDropsOnlyThatEntry ==
    [][\A i \in Sections :
        Remove(i) =>
            /\ Len(roleIndexPermission') = Len(roleIndexPermission) - 1
            /\ \A k \in 1..Len(roleIndexPermission') :
                   roleIndexPermission'[k] =
                       roleIndexPermission[IF k <= i THEN k ELSE k + 1]
    ]_vars

C7_Witness ==
    /\ lastOp = "remove"
    /\ Len(roleIndexPermission) = 1
    /\ \E k \in 1..Len(roleIndexPermission) :
           EditedEntry(roleIndexPermission[k])

\* C9: a change on a row of the section at index i replaces the attribute
\* the row is bound to in the entry at i, and leaves every other attribute of
\* that entry, every other entry, and the length and order of the array as
\* they were; a method change leaves the fields as they were.
C9_ChangeReplacesOnlyBoundAttribute ==
    [][\A i \in Sections :
        /\ \A s \in Removals(Entry(i).indexPatterns) :
               IndexPatternRowChange(i, s)
                   => ReplacesOnly(i, "indexPatterns", s)
        /\ \A s \in PermissionSelections(Entry(i).allowedActions) :
               IndexPermissionRowChange(i, s)
                   => ReplacesOnly(i, "allowedActions", s)
        /\ \A value \in DlsTexts :
               DocLevelSecurityRowChange(i, value)
                   => ReplacesOnly(i, "docLevelSecurity", value)
        /\ \A s \in Methods :
               FieldLevelSecurityRowMethodChange(i, s)
                   => /\ ReplacesOnly(i, "fieldLevelSecurityMethod", s)
                      /\ roleIndexPermission'[i + 1].fieldLevelSecurityFields
                             = roleIndexPermission[i + 1].fieldLevelSecurityFields
        /\ \A s \in Removals(Entry(i).fieldLevelSecurityFields) :
               FieldLevelSecurityRowFieldChange(i, s)
                   => ReplacesOnly(i, "fieldLevelSecurityFields", s)
        /\ \A s \in Removals(Entry(i).maskedFields) :
               AnonymizationRowChange(i, s)
                   => ReplacesOnly(i, "maskedFields", s)
    ]_vars

C9_Witness ==
    /\ lastOp = "onMethodChange"
    /\ Len(roleIndexPermission) = 2
    /\ roleIndexPermission[2].fieldLevelSecurityMethod = "include"
    /\ roleIndexPermission[2].fieldLevelSecurityFields # <<>>
    /\ EditedEntry(roleIndexPermission[1])

====
